---- MODULE Spec2Model ----
(***************************************************************************)
(* Job orchestration of src/app.py: the job and batch registries           *)
(* (job_queue, batch_queue), the download worker with its client fallback  *)
(* loop (download_task), the URL batch worker (batch_download_task), the   *)
(* two-phase Spotify worker (spotify_batch_task) and the request handlers  *)
(* that create and read the records.  Every statement of a worker that     *)
(* reads or writes shared state is one step, so that handlers and workers  *)
(* interleave the way Python threads do.                                   *)
(***************************************************************************)
EXTENDS Integers, Sequences, FiniteSets, TLC

\* ------------------------------------------------------------------ bounds
MaxSubmits == 2
MaxLen == 2
MaxJobs == 2

\* ------------------------------------------------------- inputs and values
Urls == {"u1", "u2"}
Tracks == {"t1"}
QualityInputs == {"320", "bogus"}
Qualities == {"128", "192", "256", "320"}
None == <<>>

clients_to_try == <<"ios", "android", "web", "mweb", "tv_embedded", "mediaconnect">>

\* info.get("id") of the locator: the content identifier the files are named by
VideoId(url) == IF url = "u1" THEN "v1" ELSE "v2"

\* info.get("title") as returned by the engine for url under one client
InfoTitle(url, client) == <<url, "title">>

\* a submission that stores the quality as it was sent
CoerceQuality_asis(q) == q

\* quality not in the enumeration is replaced by "192"
CoerceQuality(q) == IF q \in Qualities THEN q ELSE "192"

\* the client list of the metadata-only lookup
CLIENTS_TO_TRY == <<"ios", "android", "web", "mweb", "tv_embedded", "mediaconnect">>

\* a lookup that tries every client twice
fetch_title_with_ytdlp_retry(url) ==
    {[title |-> <<url, "meta">>, calls |-> k] : k \in 1..(2 * Len(CLIENTS_TO_TRY))}
    \cup {[title |-> <<"Unknown">>, calls |-> 2 * Len(CLIENTS_TO_TRY)]}

\* metadata-only title lookup, extract_info(url, download=False) under one client
\* after the other: the title of the first call that succeeds, or "Unknown"
\* when every client failed; calls is the number of extract_info calls made
fetch_title_with_ytdlp(url) ==
    {[title |-> <<url, "meta">>, calls |-> k] : k \in 1..Len(CLIENTS_TO_TRY)}
    \cup {[title |-> <<"Unknown">>, calls |-> Len(CLIENTS_TO_TRY)]}

\* the record a single submission or a batch worker puts into job_queue
JobRecord(status, url, title, quality) ==
    [status |-> status, url |-> url, title |-> title, quality |-> quality,
     error |-> None, file_path |-> None]

VARIABLES job_queue, batch_queue, files, archives, threads, nextId, resp

vars == <<job_queue, batch_queue, files, archives, threads, nextId, resp>>

\* the response of the step just taken: op, the number of extraction-engine
\* calls the handler made before it returned, the id in the request path (the
\* new id for a submission), the HTTP code and the body; NoResp after a
\* worker's step
NoResp == [op |-> "none", calls |-> 0, id |-> 0, code |-> 0, body |-> <<>>]

Init ==
    /\ job_queue = <<>>
    /\ batch_queue = <<>>
    /\ files = {}
    /\ archives = <<>>
    /\ threads = <<>>
    /\ nextId = 1
    /\ resp = NoResp

\* ---------------------------------------------------------------- helpers
Put(f, k, v) == [x \in DOMAIN f \cup {k} |-> IF x = k THEN v ELSE f[x]]

NewThread(kind, pc, job_id, batch_id, url, quality, urls) ==
    [kind |-> kind, pc |-> pc, job_id |-> job_id, batch_id |-> batch_id,
     url |-> url, quality |-> quality, urls |-> urls,
     i |-> 0, c |-> 0, last_error |-> None, tried |-> <<>>]

\* the job ids handed out so far: one per single job, one per batch member
JobsSubmitted == (nextId - 1) - Cardinality(DOMAIN batch_queue)

CanSubmit(n) ==
    /\ Cardinality(DOMAIN threads) < MaxSubmits
    /\ n <= MaxLen
    /\ JobsSubmitted + n <= MaxJobs

SetThread(t, th) == [threads EXCEPT ![t] = th]

\* --------------------------------------------------------- POST /enqueue
\* the record is inserted before the worker thread is started
enqueue(url, q) ==
    IF url = ""
       THEN /\ resp' = [op |-> "enqueue", calls |-> 0, id |-> 0, code |-> 400, body |-> <<"URL required">>]
            /\ UNCHANGED <<job_queue, batch_queue, files, archives, threads, nextId>>
       ELSE \E fetched \in fetch_title_with_ytdlp(url) :
            LET job_id == nextId
                quality == CoerceQuality(q)
                title == fetched.title
            IN /\ job_queue' = Put(job_queue, job_id, JobRecord("queued", url, title, quality))
               /\ threads' = Put(threads, job_id,
                                 NewThread("single", "dt_start", job_id, 0, url, quality, <<>>))
               /\ nextId' = nextId + 1
               /\ resp' = [op |-> "enqueue", calls |-> fetched.calls, id |-> job_id, code |-> 200,
                           body |-> <<"queued", title, <<quality>>>>]
               /\ UNCHANGED <<batch_queue, files, archives>>

\* ----------------------------------------------------------- download_task
\* what extract_info(url, download=True) can do under one client: raise the
\* engine's DownloadError, raise any other Exception ("fatal"), or return
\* info after writing yt_<id>.mp3, some other yt_<id>.* file, or nothing
EngineOutcomes == {"raise", "fatal", "mp3", "other", "nofile"}

\* str(e) of what the call raised under client
Raised(client, outcome) ==
    IF outcome = "raise" THEN <<client, "DownloadError">> ELSE <<client, "Exception">>

\* job_queue[job_id].update({"status": "done", "file_path": ..., "title": title})
\* by a worker that keeps a title the record already has
DoneUpdate_keeptitle(job, f, title) ==
    [job EXCEPT !.status = "done", !.file_path = f,
                !.title = IF job.title \in {<<"Unknown">>, <<"Fetching...">>} THEN title ELSE @]

\* job_queue[job_id].update({"status": "done", "file_path": ..., "title": title})
DoneUpdate(job, f, title) ==
    [job EXCEPT !.status = "done", !.file_path = f, !.title = title]

Written(url, outcome) ==
    IF outcome = "mp3" THEN {<<VideoId(url), "mp3">>}
    ELSE IF outcome = "other" THEN {<<VideoId(url), "webm">>}
    ELSE {}

\* where the worker resumes when download_task returns
ReturnPc(th) ==
    IF th.kind = "single" THEN "exit"
    ELSE IF th.kind = "batch" THEN "b_copy_status"
    ELSE "p2_copy_status"

\* return: a batch worker goes on and the locals of download_task are gone;
\* a single job's thread ends in download_task, with its last frame as it was
Returned(th) ==
    IF th.kind = "single"
    THEN [th EXCEPT !.pc = ReturnPc(th)]
    ELSE [th EXCEPT !.pc = ReturnPc(th), !.c = 0, !.last_error = None, !.tried = <<>>]

\* a success branch without its return: the loop goes on to the next client
Succeeded_noreturn(th) ==
    [th EXCEPT !.c = th.c + 1,
               !.pc = IF th.c >= Len(clients_to_try) THEN "dt_fail" ELSE "dt_try"]

\* the return of the success branch
Succeeded(th) == Returned(th)

\* an except branch that passes over the next client of the list
AfterFailure_skip(th, err) ==
    [th EXCEPT !.last_error = err,
               !.tried = Append(th.tried, clients_to_try[th.c]),
               !.c = IF th.c + 2 <= Len(clients_to_try) THEN th.c + 2 ELSE Len(clients_to_try) + 1,
               !.pc = IF th.c + 2 > Len(clients_to_try) THEN "dt_fail" ELSE "dt_try"]

\* an except branch that keeps the first error it saw
AfterFailure_keepfirst(th, err) ==
    [th EXCEPT !.last_error = IF th.last_error = None THEN err ELSE th.last_error,
               !.tried = Append(th.tried, clients_to_try[th.c]),
               !.c = th.c + 1,
               !.pc = IF th.c >= Len(clients_to_try) THEN "dt_fail" ELSE "dt_try"]

\* an except branch that retries only the engine's own error
AfterFailure_fatal(th, err) ==
    [th EXCEPT !.last_error = err,
               !.tried = Append(th.tried, clients_to_try[th.c]),
               !.c = th.c + 1,
               !.pc = IF th.c >= Len(clients_to_try) \/ err[2] = "Exception"
                      THEN "dt_fail" ELSE "dt_try"]

\* an except branch that gives up when the file was missing
AfterFailure_giveup(th, err) ==
    [th EXCEPT !.last_error = err,
               !.tried = Append(th.tried, clients_to_try[th.c]),
               !.c = th.c + 1,
               !.pc = IF th.c >= Len(clients_to_try) \/ err[2] = "File not found"
                      THEN "dt_fail" ELSE "dt_try"]

\* except Exception as e: last_error = str(e); continue
AfterFailure(th, err) ==
    [th EXCEPT !.last_error = err,
               !.tried = Append(th.tried, clients_to_try[th.c]),
               !.c = th.c + 1,
               !.pc = IF th.c >= Len(clients_to_try) THEN "dt_fail" ELSE "dt_try"]

\* downloaded_file: yt_<id>.mp3 when it exists, else any match of yt_<id>.*
Located(dir, url) ==
    IF <<VideoId(url), "mp3">> \in dir
    THEN {<<VideoId(url), "mp3">>}
    ELSE {f \in dir : f[1] = VideoId(url)}

\* a worker that puts the record back to "queued" when it starts
DtStart_requeue(t) ==
    LET th == threads[t] IN
    /\ th.pc = "dt_start"
    /\ job_queue' = [job_queue EXCEPT ![th.job_id].status = "queued"]
    /\ threads' = SetThread(t, [th EXCEPT !.pc = "dt_try", !.c = 1, !.last_error = None, !.tried = <<>>])
    /\ resp' = NoResp
    /\ UNCHANGED <<batch_queue, files, archives, nextId>>

\* job_queue[job_id]["status"] = "downloading"
DtStart(t) ==
    LET th == threads[t] IN
    /\ th.pc = "dt_start"
    /\ job_queue' = [job_queue EXCEPT ![th.job_id].status = "downloading"]
    /\ threads' = SetThread(t, [th EXCEPT !.pc = "dt_try", !.c = 1, !.last_error = None, !.tried = <<>>])
    /\ resp' = NoResp
    /\ UNCHANGED <<batch_queue, files, archives, nextId>>

\* a pass of the loop whose except branch also puts the failure in the record
DtTry_publish(t) ==
    LET th == threads[t]
        client == clients_to_try[th.c]
    IN
    /\ th.pc = "dt_try"
    /\ \E outcome \in EngineOutcomes :
         /\ files' = files \cup Written(th.url, outcome)
         /\ IF outcome \in {"raise", "fatal"}
            THEN /\ threads' = SetThread(t, AfterFailure(th, Raised(client, outcome)))
                 /\ job_queue' = [job_queue EXCEPT ![th.job_id].error = Raised(client, outcome)]
            ELSE IF Located(files', th.url) # {}
            THEN \E f \in Located(files', th.url) :
                   /\ job_queue' = [job_queue EXCEPT ![th.job_id] =
                                      DoneUpdate(@, f, InfoTitle(th.url, client))]
                   /\ threads' = SetThread(t, Succeeded(th))
            ELSE /\ threads' = SetThread(t, AfterFailure(th, <<client, "File not found">>))
                 /\ UNCHANGED job_queue
    /\ resp' = NoResp
    /\ UNCHANGED <<batch_queue, archives, nextId>>

\* one pass of the for loop: print "Trying <client>", extract_info, the file
\* checks, and then either the update to done and return, or the except branch
DtTry(t) ==
    LET th == threads[t]
        client == clients_to_try[th.c]
    IN
    /\ th.pc = "dt_try"
    /\ \E outcome \in EngineOutcomes :
         /\ files' = files \cup Written(th.url, outcome)
         /\ IF outcome \in {"raise", "fatal"}
            THEN /\ threads' = SetThread(t, AfterFailure(th, Raised(client, outcome)))
                 /\ UNCHANGED job_queue
            ELSE IF Located(files', th.url) # {}
            THEN \E f \in Located(files', th.url) :
                   /\ job_queue' = [job_queue EXCEPT ![th.job_id] =
                                      DoneUpdate(@, f, InfoTitle(th.url, client))]
                   /\ threads' = SetThread(t, Succeeded(th))
            ELSE /\ threads' = SetThread(t, AfterFailure(th, <<client, "File not found">>))
                 /\ UNCHANGED job_queue
    /\ resp' = NoResp
    /\ UNCHANGED <<batch_queue, archives, nextId>>

\* a worker that returns after the last client without writing the error
DtFail_silent(t) ==
    LET th == threads[t] IN
    /\ th.pc = "dt_fail"
    /\ threads' = SetThread(t, Returned(th))
    /\ resp' = NoResp
    /\ UNCHANGED <<job_queue, batch_queue, files, archives, nextId>>

\* a failure that also records where the file would have been
DtFail_path(t) ==
    LET th == threads[t] IN
    /\ th.pc = "dt_fail"
    /\ job_queue' = [job_queue EXCEPT ![th.job_id] =
                       [@ EXCEPT !.status = "error",
                                 !.error = <<"Download failed.">> \o th.last_error,
                                 !.file_path = <<VideoId(th.url), "mp3">>]]
    /\ threads' = SetThread(t, Returned(th))
    /\ resp' = NoResp
    /\ UNCHANGED <<batch_queue, files, archives, nextId>>

\* all clients failed
DtFail(t) ==
    LET th == threads[t] IN
    /\ th.pc = "dt_fail"
    /\ job_queue' = [job_queue EXCEPT ![th.job_id] =
                       [@ EXCEPT !.status = "error",
                                 !.error = <<"Download failed.">> \o th.last_error]]
    /\ threads' = SetThread(t, Returned(th))
    /\ resp' = NoResp
    /\ UNCHANGED <<batch_queue, files, archives, nextId>>

\* ---------------------------------------------------- POST /batch_enqueue
BatchLimit == 50

SeqsUpTo(S, n) == UNION {[1..k -> S] : k \in 0..n}

\* the lines of the form that name a YouTube locator
IsYoutubeLine(line) == line \in Urls

\* urls = [line for line in ... if line and ("youtube.com" in line or ...)]
FilterUrls(lines) == SelectSeq(lines, IsYoutubeLine)

\* a batch submit that creates its members in searching
BatchMember_searching(job_id, url) ==
    [job_id |-> job_id, url |-> <<url>>, status |-> "searching", title |-> <<"Waiting...">>,
     error |-> None, file_path |-> None]

\* one entry of batch["jobs"] as batch_enqueue creates it
BatchMember(job_id, url) ==
    [job_id |-> job_id, url |-> <<url>>, status |-> "queued", title |-> <<"Waiting...">>,
     error |-> None, file_path |-> None]

BatchRecord(total, quality, jobs) ==
    [status |-> "processing", total |-> total, completed |-> 0, failed |-> 0,
     current_index |-> 0, quality |-> quality, jobs |-> jobs]

\* a submit that also puts every member into job_queue
batch_enqueue_preregister(lines, q) ==
    LET urls == FilterUrls(lines)
        quality == CoerceQuality(q)
        batch_id == nextId
        jobs == [k \in 1..Len(urls) |-> BatchMember(nextId + k, urls[k])]
    IN
    /\ IF urls = <<>> \/ Len(urls) > BatchLimit
       THEN /\ resp' = [op |-> "batch_enqueue", calls |-> 0, id |-> 0, code |-> 400,
                        body |-> <<IF urls = <<>> THEN "No valid YouTube URLs found"
                                   ELSE "Maximum 50 URLs per batch">>]
            /\ UNCHANGED <<job_queue, batch_queue, files, archives, threads, nextId>>
       ELSE /\ batch_queue' = Put(batch_queue, batch_id, BatchRecord(Len(urls), quality, jobs))
            /\ job_queue' = [j \in DOMAIN job_queue \cup {nextId + k : k \in 1..Len(urls)} |->
                               IF j \in DOMAIN job_queue THEN job_queue[j]
                               ELSE JobRecord("queued", urls[j - nextId], <<"Waiting...">>, quality)]
            /\ threads' = Put(threads, batch_id,
                              NewThread("batch", "b_next", 0, batch_id, "", quality, urls))
            /\ nextId' = nextId + Len(urls) + 1
            /\ resp' = [op |-> "batch_enqueue", calls |-> 0, id |-> batch_id, code |-> 200,
                        body |-> [k \in 1..Len(urls) |-> <<jobs[k].job_id, "queued">>]]
            /\ UNCHANGED <<files, archives>>

batch_enqueue(lines, q) ==
    LET urls == FilterUrls(lines)
        quality == CoerceQuality(q)
        batch_id == nextId
        jobs == [k \in 1..Len(urls) |-> BatchMember(nextId + k, urls[k])]
    IN
    /\ IF urls = <<>> \/ Len(urls) > BatchLimit
       THEN /\ resp' = [op |-> "batch_enqueue", calls |-> 0, id |-> 0, code |-> 400,
                        body |-> <<IF urls = <<>> THEN "No valid YouTube URLs found"
                                   ELSE "Maximum 50 URLs per batch">>]
            /\ UNCHANGED <<job_queue, batch_queue, files, archives, threads, nextId>>
       ELSE /\ batch_queue' = Put(batch_queue, batch_id, BatchRecord(Len(urls), quality, jobs))
            /\ threads' = Put(threads, batch_id,
                              NewThread("batch", "b_next", 0, batch_id, "", quality, urls))
            /\ nextId' = nextId + Len(urls) + 1
            /\ resp' = [op |-> "batch_enqueue", calls |-> 0, id |-> batch_id, code |-> 200,
                        body |-> [k \in 1..Len(urls) |-> <<jobs[k].job_id, "queued">>]]
            /\ UNCHANGED <<job_queue, files, archives>>

\* ------------------------------------------------------ batch_download_task
\* a loop that stops at the first member that failed
BNext_abort(t) ==
    LET th == threads[t]
        b == th.batch_id
    IN
    /\ th.pc = "b_next"
    /\ IF th.i < Len(th.urls) /\ ~(th.i > 0 /\ batch_queue[b].jobs[th.i].status = "error")
       THEN /\ batch_queue' = [batch_queue EXCEPT ![b].current_index = th.i]
            /\ threads' = SetThread(t, [th EXCEPT !.i = th.i + 1,
                                                  !.job_id = batch_queue[b].jobs[th.i + 1].job_id,
                                                  !.url = th.urls[th.i + 1],
                                                  !.pc = "b_mark"])
       ELSE /\ batch_queue' = [batch_queue EXCEPT ![b].status = "done"]
            /\ threads' = SetThread(t, [th EXCEPT !.pc = "exit"])
    /\ resp' = NoResp
    /\ UNCHANGED <<job_queue, files, archives, nextId>>

\* a loop head that numbers the members from one
BNext_onebased(t) ==
    LET th == threads[t]
        b == th.batch_id
    IN
    /\ th.pc = "b_next"
    /\ IF th.i < Len(th.urls)
       THEN /\ batch_queue' = [batch_queue EXCEPT ![b].current_index = th.i + 1]
            /\ threads' = SetThread(t, [th EXCEPT !.i = th.i + 1,
                                                  !.job_id = batch_queue[b].jobs[th.i + 1].job_id,
                                                  !.url = th.urls[th.i + 1],
                                                  !.pc = "b_mark"])
       ELSE /\ batch_queue' = [batch_queue EXCEPT ![b].status = "done"]
            /\ threads' = SetThread(t, [th EXCEPT !.pc = "exit"])
    /\ resp' = NoResp
    /\ UNCHANGED <<job_queue, files, archives, nextId>>

\* for i, url in enumerate(urls): batch["current_index"] = i; after the last
\* item batch["status"] = "done"
BNext(t) ==
    LET th == threads[t]
        b == th.batch_id
    IN
    /\ th.pc = "b_next"
    /\ IF th.i < Len(th.urls)
       THEN /\ batch_queue' = [batch_queue EXCEPT ![b].current_index = th.i]
            /\ threads' = SetThread(t, [th EXCEPT !.i = th.i + 1,
                                                  !.job_id = batch_queue[b].jobs[th.i + 1].job_id,
                                                  !.url = th.urls[th.i + 1],
                                                  !.pc = "b_mark"])
       ELSE /\ batch_queue' = [batch_queue EXCEPT ![b].status = "done"]
            /\ threads' = SetThread(t, [th EXCEPT !.pc = "exit"])
    /\ resp' = NoResp
    /\ UNCHANGED <<job_queue, files, archives, nextId>>

\* batch["jobs"][i]["status"] = "downloading"
BMark(t) ==
    LET th == threads[t] IN
    /\ th.pc = "b_mark"
    /\ batch_queue' = [batch_queue EXCEPT ![th.batch_id].jobs[th.i].status = "downloading"]
    /\ threads' = SetThread(t, [th EXCEPT !.pc = "b_register"])
    /\ resp' = NoResp
    /\ UNCHANGED <<job_queue, files, archives, nextId>>

\* a worker that registers its member under the first id ever handed out
BRegister_shared(t) ==
    LET th == threads[t] IN
    /\ th.pc = "b_register"
    /\ job_queue' = Put(job_queue, 1,
                        JobRecord("downloading", th.url, <<"Fetching...">>, th.quality))
    /\ threads' = SetThread(t, [th EXCEPT !.pc = "dt_start", !.job_id = 1])
    /\ resp' = NoResp
    /\ UNCHANGED <<batch_queue, files, archives, nextId>>

\* job_queue[job_id] = {...}; download_task(job_id, url, quality)
BRegister(t) ==
    LET th == threads[t] IN
    /\ th.pc = "b_register"
    /\ job_queue' = Put(job_queue, th.job_id,
                        JobRecord("downloading", th.url, <<"Fetching...">>, th.quality))
    /\ threads' = SetThread(t, [th EXCEPT !.pc = "dt_start"])
    /\ resp' = NoResp
    /\ UNCHANGED <<batch_queue, files, archives, nextId>>

\* a worker that does not copy the status back
BCopyStatus_skip(t) ==
    LET th == threads[t] IN
    /\ th.pc = "b_copy_status"
    /\ threads' = SetThread(t, [th EXCEPT !.pc = "b_copy_title"])
    /\ resp' = NoResp
    /\ UNCHANGED <<job_queue, batch_queue, files, archives, nextId>>

\* batch["jobs"][i]["status"] = job["status"]
BCopyStatus(t) ==
    LET th == threads[t] IN
    /\ th.pc = "b_copy_status"
    /\ batch_queue' = [batch_queue EXCEPT
                         ![th.batch_id].jobs[th.i].status = job_queue[th.job_id].status]
    /\ threads' = SetThread(t, [th EXCEPT !.pc = "b_copy_title"])
    /\ resp' = NoResp
    /\ UNCHANGED <<job_queue, files, archives, nextId>>

\* a worker that also puts a placeholder title back on the finished job
BCopyTitle_retitle(t) ==
    LET th == threads[t] IN
    /\ th.pc = "b_copy_title"
    /\ batch_queue' = [batch_queue EXCEPT
                         ![th.batch_id].jobs[th.i].title = job_queue[th.job_id].title]
    /\ job_queue' = [job_queue EXCEPT ![th.job_id].title = <<"Fetching...">>]
    /\ threads' = SetThread(t, [th EXCEPT !.pc = "b_copy_error"])
    /\ resp' = NoResp
    /\ UNCHANGED <<files, archives, nextId>>

\* batch["jobs"][i]["title"] = job.get("title", "Unknown")
BCopyTitle(t) ==
    LET th == threads[t] IN
    /\ th.pc = "b_copy_title"
    /\ batch_queue' = [batch_queue EXCEPT
                         ![th.batch_id].jobs[th.i].title = job_queue[th.job_id].title]
    /\ threads' = SetThread(t, [th EXCEPT !.pc = "b_copy_error"])
    /\ resp' = NoResp
    /\ UNCHANGED <<job_queue, files, archives, nextId>>

\* a worker that does not copy the error back
BCopyError_none(t) ==
    LET th == threads[t] IN
    /\ th.pc = "b_copy_error"
    /\ threads' = SetThread(t, [th EXCEPT !.pc = "b_copy_file"])
    /\ resp' = NoResp
    /\ UNCHANGED <<job_queue, batch_queue, files, archives, nextId>>

\* batch["jobs"][i]["error"] = job.get("error")
BCopyError(t) ==
    LET th == threads[t] IN
    /\ th.pc = "b_copy_error"
    /\ batch_queue' = [batch_queue EXCEPT
                         ![th.batch_id].jobs[th.i].error = job_queue[th.job_id].error]
    /\ threads' = SetThread(t, [th EXCEPT !.pc = "b_copy_file"])
    /\ resp' = NoResp
    /\ UNCHANGED <<job_queue, files, archives, nextId>>

\* batch["jobs"][i]["file_path"] = job.get("file_path")
BCopyFile(t) ==
    LET th == threads[t] IN
    /\ th.pc = "b_copy_file"
    /\ batch_queue' = [batch_queue EXCEPT
                         ![th.batch_id].jobs[th.i].file_path = job_queue[th.job_id].file_path]
    /\ threads' = SetThread(t, [th EXCEPT !.pc = "b_count"])
    /\ resp' = NoResp
    /\ UNCHANGED <<job_queue, files, archives, nextId>>

\* a count that adds to both counters
Counted_both(batch, status) ==
    IF status \in {"done", "error"}
    THEN [batch EXCEPT !.completed = @ + 1, !.failed = @ + 1]
    ELSE batch

\* if job["status"] == "done": completed += 1 elif "error": failed += 1
Counted(batch, status) ==
    IF status = "done" THEN [batch EXCEPT !.completed = @ + 1]
    ELSE IF status = "error" THEN [batch EXCEPT !.failed = @ + 1]
    ELSE batch

\* a count that is added to every batch of the registry
BCount_every(t) ==
    LET th == threads[t] IN
    /\ th.pc = "b_count"
    /\ batch_queue' = [b \in DOMAIN batch_queue |->
                         Counted(batch_queue[b], job_queue[th.job_id].status)]
    /\ threads' = SetThread(t, [th EXCEPT !.pc = "b_next"])
    /\ resp' = NoResp
    /\ UNCHANGED <<job_queue, files, archives, nextId>>

BCount(t) ==
    LET th == threads[t] IN
    /\ th.pc = "b_count"
    /\ batch_queue' = [batch_queue EXCEPT
                         ![th.batch_id] = Counted(@, job_queue[th.job_id].status)]
    /\ threads' = SetThread(t, [th EXCEPT !.pc = "b_next"])
    /\ resp' = NoResp
    /\ UNCHANGED <<job_queue, files, archives, nextId>>

\* -------------------------------------------------- POST /spotify_download
\* one entry of batch["jobs"] as spotify_download creates it
SpotifyMember(job_id, track) ==
    [job_id |-> job_id, url |-> None, status |-> "searching", title |-> <<track, "artist">>,
     search_query |-> <<track>>, error |-> None, file_path |-> None]

\* a submit that takes the list as it was sent
Truncate_asis(tracks) == tracks

\* if len(tracks) > 50: tracks = tracks[:50]
Truncate(tracks) == IF Len(tracks) > BatchLimit THEN SubSeq(tracks, 1, BatchLimit) ELSE tracks

spotify_download(form, sent, q) ==
    LET tracks == Truncate(sent)
        quality == CoerceQuality(q)
        batch_id == nextId
        jobs == [k \in 1..Len(tracks) |-> SpotifyMember(nextId + k, tracks[k])]
    IN
    /\ IF form # "ok"
       THEN /\ resp' = [op |-> "spotify_download", calls |-> 0, id |-> 0, code |-> 400, body |-> <<form>>]
            /\ UNCHANGED <<job_queue, batch_queue, files, archives, threads, nextId>>
       ELSE /\ batch_queue' = Put(batch_queue, batch_id, BatchRecord(Len(tracks), quality, jobs))
            /\ threads' = Put(threads, batch_id,
                              NewThread("spotify", "s_next", 0, batch_id, "", quality, <<>>))
            /\ nextId' = nextId + Len(tracks) + 1
            /\ resp' = [op |-> "spotify_download", calls |-> 0, id |-> batch_id, code |-> 200,
                        body |-> [k \in 1..Len(tracks) |-> <<jobs[k].job_id, "searching">>]]
            /\ UNCHANGED <<job_queue, files, archives>>

\* --------------------------------------------------------- spotify_batch_task
\* search_youtube_for_track: the first result's locator, or None
SearchResults == {<<u>> : u \in Urls} \cup {None}

\* a phase 1 that hands over to phase 2 after the first track
SNext_early(t) ==
    LET th == threads[t]
        b == th.batch_id
    IN
    /\ th.pc = "s_next"
    /\ IF th.i < Len(batch_queue[b].jobs) /\ th.i < 1
       THEN /\ batch_queue' = [batch_queue EXCEPT ![b].current_index = th.i]
            /\ threads' = SetThread(t, [th EXCEPT !.i = th.i + 1, !.pc = "s_search"])
       ELSE /\ threads' = SetThread(t, [th EXCEPT !.i = 0, !.pc = "p2_next"])
            /\ UNCHANGED batch_queue
    /\ resp' = NoResp
    /\ UNCHANGED <<job_queue, files, archives, nextId>>

\* phase 1 loop head: batch["current_index"] = i; after the last track, phase 2
SNext(t) ==
    LET th == threads[t]
        b == th.batch_id
    IN
    /\ th.pc = "s_next"
    /\ IF th.i < Len(batch_queue[b].jobs)
       THEN /\ batch_queue' = [batch_queue EXCEPT ![b].current_index = th.i]
            /\ threads' = SetThread(t, [th EXCEPT !.i = th.i + 1, !.pc = "s_search"])
       ELSE /\ threads' = SetThread(t, [th EXCEPT !.i = 0, !.pc = "p2_next"])
            /\ UNCHANGED batch_queue
    /\ resp' = NoResp
    /\ UNCHANGED <<job_queue, files, archives, nextId>>

\* yt_url = search_youtube_for_track(...): job["url"] = yt_url, or job["status"] = "error"
SSearch(t) ==
    LET th == threads[t]
        b == th.batch_id
    IN
    /\ th.pc = "s_search"
    /\ \E yt_url \in SearchResults :
         IF yt_url # None
         THEN /\ batch_queue' = [batch_queue EXCEPT ![b].jobs[th.i].url = yt_url]
              /\ threads' = SetThread(t, [th EXCEPT !.pc = "s_set_queued"])
         ELSE /\ batch_queue' = [batch_queue EXCEPT ![b].jobs[th.i].status = "error"]
              /\ threads' = SetThread(t, [th EXCEPT !.pc = "s_set_errmsg"])
    /\ resp' = NoResp
    /\ UNCHANGED <<job_queue, files, archives, nextId>>

\* job["status"] = "queued"
SSetQueued(t) ==
    LET th == threads[t] IN
    /\ th.pc = "s_set_queued"
    /\ batch_queue' = [batch_queue EXCEPT ![th.batch_id].jobs[th.i].status = "queued"]
    /\ threads' = SetThread(t, [th EXCEPT !.pc = "s_next"])
    /\ resp' = NoResp
    /\ UNCHANGED <<job_queue, files, archives, nextId>>

\* job["error"] = "No YouTube match found"
SSetErrMsg(t) ==
    LET th == threads[t] IN
    /\ th.pc = "s_set_errmsg"
    /\ batch_queue' = [batch_queue EXCEPT
                         ![th.batch_id].jobs[th.i].error = <<"No YouTube match found">>]
    /\ threads' = SetThread(t, [th EXCEPT !.pc = "s_count_failed"])
    /\ resp' = NoResp
    /\ UNCHANGED <<job_queue, files, archives, nextId>>

\* a search failure that is counted twice
SCountFailed_twice(t) ==
    LET th == threads[t] IN
    /\ th.pc = "s_count_failed"
    /\ batch_queue' = [batch_queue EXCEPT ![th.batch_id].failed = @ + 2]
    /\ threads' = SetThread(t, [th EXCEPT !.pc = "s_next"])
    /\ resp' = NoResp
    /\ UNCHANGED <<job_queue, files, archives, nextId>>

\* a search failure that is not counted
SCountFailed_uncounted(t) ==
    LET th == threads[t] IN
    /\ th.pc = "s_count_failed"
    /\ threads' = SetThread(t, [th EXCEPT !.pc = "s_next"])
    /\ resp' = NoResp
    /\ UNCHANGED <<job_queue, batch_queue, files, archives, nextId>>

\* batch["failed"] += 1
SCountFailed(t) ==
    LET th == threads[t] IN
    /\ th.pc = "s_count_failed"
    /\ batch_queue' = [batch_queue EXCEPT ![th.batch_id].failed = @ + 1]
    /\ threads' = SetThread(t, [th EXCEPT !.pc = "s_next"])
    /\ resp' = NoResp
    /\ UNCHANGED <<job_queue, files, archives, nextId>>

\* if job["status"] != "queued" or not job.get("url"): continue
Phase2Skips(job) == job.status # "queued" \/ job.url = None

\* phase 2 loop head: skip, or batch["current_index"] = i; after the last
\* member batch["status"] = "done"
P2Next(t) ==
    LET th == threads[t]
        b == th.batch_id
        jobs == batch_queue[b].jobs
    IN
    /\ th.pc = "p2_next"
    /\ IF th.i < Len(jobs)
       THEN IF Phase2Skips(jobs[th.i + 1])
            THEN /\ threads' = SetThread(t, [th EXCEPT !.i = th.i + 1])
                 /\ UNCHANGED batch_queue
            ELSE /\ batch_queue' = [batch_queue EXCEPT ![b].current_index = th.i]
                 /\ threads' = SetThread(t, [th EXCEPT !.i = th.i + 1,
                                                       !.job_id = jobs[th.i + 1].job_id,
                                                       !.url = jobs[th.i + 1].url[1],
                                                       !.pc = "p2_mark"])
       ELSE /\ batch_queue' = [batch_queue EXCEPT ![b].status = "done"]
            /\ threads' = SetThread(t, [th EXCEPT !.pc = "exit"])
    /\ resp' = NoResp
    /\ UNCHANGED <<job_queue, files, archives, nextId>>

\* job["status"] = "downloading"
P2Mark(t) ==
    LET th == threads[t] IN
    /\ th.pc = "p2_mark"
    /\ batch_queue' = [batch_queue EXCEPT ![th.batch_id].jobs[th.i].status = "downloading"]
    /\ threads' = SetThread(t, [th EXCEPT !.pc = "p2_register"])
    /\ resp' = NoResp
    /\ UNCHANGED <<job_queue, files, archives, nextId>>

\* a phase 2 that calls download_task without creating the record
P2Register_skip(t) ==
    LET th == threads[t] IN
    /\ th.pc = "p2_register"
    /\ threads' = SetThread(t, [th EXCEPT !.pc = "dt_start"])
    /\ resp' = NoResp
    /\ UNCHANGED <<job_queue, batch_queue, files, archives, nextId>>

\* job_queue[job_id] = {...}; download_task(job_id, job["url"], quality)
P2Register(t) ==
    LET th == threads[t] IN
    /\ th.pc = "p2_register"
    /\ job_queue' = Put(job_queue, th.job_id,
                        JobRecord("downloading", th.url,
                                  batch_queue[th.batch_id].jobs[th.i].title, th.quality))
    /\ threads' = SetThread(t, [th EXCEPT !.pc = "dt_start"])
    /\ resp' = NoResp
    /\ UNCHANGED <<batch_queue, files, archives, nextId>>

\* job["status"] = main_job.get("status", "error")
P2CopyStatus(t) ==
    LET th == threads[t] IN
    /\ th.pc = "p2_copy_status"
    /\ batch_queue' = [batch_queue EXCEPT
                         ![th.batch_id].jobs[th.i].status = job_queue[th.job_id].status]
    /\ threads' = SetThread(t, [th EXCEPT !.pc = "p2_copy_title"])
    /\ resp' = NoResp
    /\ UNCHANGED <<job_queue, files, archives, nextId>>

\* job["title"] = main_job.get("title", job["title"])
P2CopyTitle(t) ==
    LET th == threads[t] IN
    /\ th.pc = "p2_copy_title"
    /\ batch_queue' = [batch_queue EXCEPT
                         ![th.batch_id].jobs[th.i].title = job_queue[th.job_id].title]
    /\ threads' = SetThread(t, [th EXCEPT !.pc = "p2_copy_error"])
    /\ resp' = NoResp
    /\ UNCHANGED <<job_queue, files, archives, nextId>>

\* job["error"] = main_job.get("error")
P2CopyError(t) ==
    LET th == threads[t] IN
    /\ th.pc = "p2_copy_error"
    /\ batch_queue' = [batch_queue EXCEPT
                         ![th.batch_id].jobs[th.i].error = job_queue[th.job_id].error]
    /\ threads' = SetThread(t, [th EXCEPT !.pc = "p2_copy_file"])
    /\ resp' = NoResp
    /\ UNCHANGED <<job_queue, files, archives, nextId>>

\* job["file_path"] = main_job.get("file_path")
P2CopyFile(t) ==
    LET th == threads[t] IN
    /\ th.pc = "p2_copy_file"
    /\ batch_queue' = [batch_queue EXCEPT
                         ![th.batch_id].jobs[th.i].file_path = job_queue[th.job_id].file_path]
    /\ threads' = SetThread(t, [th EXCEPT !.pc = "p2_count"])
    /\ resp' = NoResp
    /\ UNCHANGED <<job_queue, files, archives, nextId>>

\* if job["status"] == "done": completed += 1 elif "error": failed += 1
P2Count(t) ==
    LET th == threads[t] IN
    /\ th.pc = "p2_count"
    /\ batch_queue' = [batch_queue EXCEPT
                         ![th.batch_id] = Counted(@, @.jobs[th.i].status)]
    /\ threads' = SetThread(t, [th EXCEPT !.pc = "p2_next"])
    /\ resp' = NoResp
    /\ UNCHANGED <<job_queue, files, archives, nextId>>

\* ------------------------------------------------------------ read handlers
\* safe_filename appends the format extension to the (sanitized) title
safe_filename(name) == name \o <<".mp3">>

\* a poll that retitles the record it has reported
get_status_stamp(job_id) ==
    /\ resp' = IF job_id \notin DOMAIN job_queue
               THEN [op |-> "status", calls |-> 0, id |-> job_id, code |-> 404, body |-> <<"Job not found">>]
               ELSE [op |-> "status", calls |-> 0, id |-> job_id, code |-> 200,
                     body |-> <<job_queue[job_id].status, job_queue[job_id].title,
                                job_queue[job_id].error>>]
    /\ job_queue' = [x \in DOMAIN job_queue |->
                       IF x = job_id THEN [job_queue[x] EXCEPT !.title = <<"seen">>]
                       ELSE job_queue[x]]
    /\ UNCHANGED <<batch_queue, files, archives, threads, nextId>>

\* GET /status/<job_id>
get_status(job_id) ==
    /\ resp' = IF job_id \notin DOMAIN job_queue
               THEN [op |-> "status", calls |-> 0, id |-> job_id, code |-> 404, body |-> <<"Job not found">>]
               ELSE [op |-> "status", calls |-> 0, id |-> job_id, code |-> 200,
                     body |-> <<job_queue[job_id].status, job_queue[job_id].title,
                                job_queue[job_id].error>>]
    /\ UNCHANGED <<job_queue, batch_queue, files, archives, threads, nextId>>

\* a handler that does not look at the status
download_job_anystatus(job_id) ==
    /\ resp' = IF job_id \notin DOMAIN job_queue
               THEN [op |-> "download_job", calls |-> 0, id |-> job_id, code |-> 404,
                     body |-> <<"Job not found">>]
               ELSE [op |-> "download_job", calls |-> 0, id |-> job_id, code |-> 200,
                     body |-> <<job_queue[job_id].file_path,
                                safe_filename(job_queue[job_id].title)>>]
    /\ UNCHANGED <<job_queue, batch_queue, files, archives, threads, nextId>>

\* GET /download_job/<job_id>
download_job(job_id) ==
    /\ resp' = IF job_id \notin DOMAIN job_queue
               THEN [op |-> "download_job", calls |-> 0, id |-> job_id, code |-> 404, body |-> <<"Job not found">>]
               ELSE IF job_queue[job_id].status # "done"
               THEN [op |-> "download_job", calls |-> 0, id |-> job_id, code |-> 400,
                     body |-> <<"Job status", job_queue[job_id].status>>]
               ELSE IF job_queue[job_id].file_path \notin files
               THEN [op |-> "download_job", calls |-> 0, id |-> job_id, code |-> 404, body |-> <<"File not found">>]
               ELSE [op |-> "download_job", calls |-> 0, id |-> job_id, code |-> 200,
                     body |-> <<job_queue[job_id].file_path,
                                safe_filename(job_queue[job_id].title)>>]
    /\ UNCHANGED <<job_queue, batch_queue, files, archives, threads, nextId>>

\* GET /batch_status/<batch_id>
batch_status(batch_id) ==
    /\ resp' = IF batch_id \notin DOMAIN batch_queue
               THEN [op |-> "batch_status", calls |-> 0, id |-> batch_id, code |-> 404, body |-> <<"Batch not found">>]
               ELSE LET batch == batch_queue[batch_id] IN
                    [op |-> "batch_status", calls |-> 0, id |-> batch_id, code |-> 200,
                     body |-> [status |-> batch.status, total |-> batch.total,
                               completed |-> batch.completed, failed |-> batch.failed,
                               current_index |-> batch.current_index,
                               jobs |-> [k \in DOMAIN batch.jobs |->
                                           [job_id |-> batch.jobs[k].job_id,
                                            url |-> batch.jobs[k].url,
                                            status |-> batch.jobs[k].status,
                                            title |-> batch.jobs[k].title,
                                            error |-> batch.jobs[k].error]]]]
    /\ UNCHANGED <<job_queue, batch_queue, files, archives, threads, nextId>>

\* a filter that takes every finished member
Packable_finished(j) == j.status \in {"done", "error"}

\* the members that go into the archive
Packable(j) == j.status = "done" /\ j.file_path # None /\ j.file_path \in files

\* files_to_zip, in member order
FilesToZip(batch) ==
    LET entry(j) == <<j.file_path, safe_filename(j.title)>>
        picked == SelectSeq(batch.jobs, Packable)
    IN [k \in DOMAIN picked |-> entry(picked[k])]

\* a handler that marks the batch it has packed
batch_download_mark(batch_id) ==
    IF batch_id \notin DOMAIN batch_queue
    THEN /\ resp' = [op |-> "batch_download", calls |-> 0, id |-> batch_id, code |-> 404,
                     body |-> <<"Batch not found">>]
         /\ UNCHANGED <<job_queue, batch_queue, files, archives, threads, nextId>>
    ELSE IF FilesToZip(batch_queue[batch_id]) = <<>>
    THEN /\ resp' = [op |-> "batch_download", calls |-> 0, id |-> batch_id, code |-> 400,
                     body |-> <<"No files">>]
         /\ UNCHANGED <<job_queue, batch_queue, files, archives, threads, nextId>>
    ELSE /\ archives' = Put(archives, batch_id, FilesToZip(batch_queue[batch_id]))
         /\ batch_queue' = [batch_queue EXCEPT ![batch_id].status = "packaged"]
         /\ resp' = [op |-> "batch_download", calls |-> 0, id |-> batch_id, code |-> 200,
                     body |-> FilesToZip(batch_queue[batch_id])]
         /\ UNCHANGED <<job_queue, files, threads, nextId>>

\* a handler that writes an archive even when there is nothing to put in it
batch_download_empty(batch_id) ==
    IF batch_id \notin DOMAIN batch_queue
    THEN /\ resp' = [op |-> "batch_download", calls |-> 0, id |-> batch_id, code |-> 404,
                     body |-> <<"Batch not found">>]
         /\ UNCHANGED <<job_queue, batch_queue, files, archives, threads, nextId>>
    ELSE /\ archives' = Put(archives, batch_id, FilesToZip(batch_queue[batch_id]))
         /\ resp' = [op |-> "batch_download", calls |-> 0, id |-> batch_id, code |-> 200,
                     body |-> FilesToZip(batch_queue[batch_id])]
         /\ UNCHANGED <<job_queue, batch_queue, files, threads, nextId>>

\* GET /batch_download/<batch_id>: writes batch_<id>.zip into DOWNLOAD_DIR
batch_download(batch_id) ==
    IF batch_id \notin DOMAIN batch_queue
    THEN /\ resp' = [op |-> "batch_download", calls |-> 0, id |-> batch_id, code |-> 404, body |-> <<"Batch not found">>]
         /\ UNCHANGED <<job_queue, batch_queue, files, archives, threads, nextId>>
    ELSE IF FilesToZip(batch_queue[batch_id]) = <<>>
    THEN /\ resp' = [op |-> "batch_download", calls |-> 0, id |-> batch_id, code |-> 400, body |-> <<"No files">>]
         /\ UNCHANGED <<job_queue, batch_queue, files, archives, threads, nextId>>
    ELSE /\ archives' = Put(archives, batch_id, FilesToZip(batch_queue[batch_id]))
         /\ resp' = [op |-> "batch_download", calls |-> 0, id |-> batch_id, code |-> 200,
                     body |-> FilesToZip(batch_queue[batch_id])]
         /\ UNCHANGED <<job_queue, batch_queue, files, threads, nextId>>

\* ------------------------------------------------------------ specification
\* the ids a client can ask about: every id handed out, and one that never was
KnownIds == 1..nextId

\* the submissions, with the qualities the clients ask for drawn from Q
SubmitFrom(Q) ==
    \/ \E url \in Urls \cup {""}, q \in Q :
         CanSubmit(1) /\ enqueue(url, q)
    \/ \E lines \in SeqsUpTo(Urls \cup {"junk"}, MaxLen), q \in Q :
         CanSubmit(Len(FilterUrls(lines))) /\ batch_enqueue(lines, q)
    \/ \E form \in {"missing", "invalid", "ok"}, sent \in SeqsUpTo(Tracks, MaxLen), q \in Q :
         CanSubmit(Len(sent)) /\ spotify_download(form, sent, q)

Download ==
    \/ \E t \in DOMAIN threads : DtStart(t)
    \/ \E t \in DOMAIN threads : DtTry(t)
    \/ \E t \in DOMAIN threads : DtFail(t)

Batch ==
    \/ \E t \in DOMAIN threads : BNext(t)
    \/ \E t \in DOMAIN threads : BMark(t)
    \/ \E t \in DOMAIN threads : BRegister(t)
    \/ \E t \in DOMAIN threads : BCopyStatus(t)
    \/ \E t \in DOMAIN threads : BCopyTitle(t)
    \/ \E t \in DOMAIN threads : BCopyError(t)
    \/ \E t \in DOMAIN threads : BCopyFile(t)
    \/ \E t \in DOMAIN threads : BCount(t)

Spotify ==
    \/ \E t \in DOMAIN threads : SNext(t)
    \/ \E t \in DOMAIN threads : SSearch(t)
    \/ \E t \in DOMAIN threads : SSetQueued(t)
    \/ \E t \in DOMAIN threads : SSetErrMsg(t)
    \/ \E t \in DOMAIN threads : SCountFailed(t)
    \/ \E t \in DOMAIN threads : P2Next(t)
    \/ \E t \in DOMAIN threads : P2Mark(t)
    \/ \E t \in DOMAIN threads : P2Register(t)
    \/ \E t \in DOMAIN threads : P2CopyStatus(t)
    \/ \E t \in DOMAIN threads : P2CopyTitle(t)
    \/ \E t \in DOMAIN threads : P2CopyError(t)
    \/ \E t \in DOMAIN threads : P2CopyFile(t)
    \/ \E t \in DOMAIN threads : P2Count(t)

Work == Download \/ Batch \/ Spotify

Read ==
    \/ \E id \in KnownIds : get_status(id)
    \/ \E id \in KnownIds : download_job(id)
    \/ \E id \in KnownIds : batch_status(id)
    \/ \E id \in KnownIds : batch_download(id)

\* workers of concurrent submissions
Next == SubmitFrom({"320"}) \/ Work

Spec == Init /\ [][Next]_vars

\* one submission, its worker, and the read handlers between the worker's steps
NextRead == (threads = <<>> /\ SubmitFrom({"320"})) \/ Work \/ Read

SpecRead == Init /\ [][NextRead]_vars

\* concurrent submissions, their workers, and GET /status between their steps
Poll == \E id \in KnownIds : get_status(id)

NextPoll == SubmitFrom({"320"}) \/ Work \/ Poll

SpecPoll == Init /\ [][NextPoll]_vars

\* one submission with any quality the form can carry, and its worker
NextQuality == (threads = <<>> /\ SubmitFrom(QualityInputs)) \/ Work

SpecQuality == Init /\ [][NextQuality]_vars

\* concurrent submissions, their workers, and GET /batch_status and
\* GET /batch_download of the batches between their steps
ReadBatch ==
    \/ \E id \in DOMAIN batch_queue : batch_status(id)
    \/ \E id \in DOMAIN batch_queue : batch_download(id)

NextPack == SubmitFrom({"320"}) \/ Work \/ ReadBatch

SpecPack == Init /\ [][NextPack]_vars

\* submissions at the limit of 50: n locator lines followed by j lines of
\* something else, and n tracks whose first and last are told apart
Repeat(x, n) == [k \in 1..n |-> x]

LongLines ==
    {Repeat("u1", n) \o Repeat("junk", j) :
        n \in {0, 1, BatchLimit, BatchLimit + 1}, j \in {0, 1}}

LongTrack(n) == [k \in 1..n |-> IF k = 1 THEN "t0" ELSE IF k = n THEN "t9" ELSE "t1"]

LongTracks == {LongTrack(n) : n \in {0, 1, BatchLimit, BatchLimit + 1, BatchLimit + 2}}

SubmitLong ==
    \/ \E lines \in LongLines :
         Cardinality(DOMAIN threads) < MaxSubmits /\ batch_enqueue(lines, "320")
    \/ \E sent \in LongTracks :
         Cardinality(DOMAIN threads) < MaxSubmits /\ spotify_download("ok", sent, "320")

\* the workers of the batches of at most MaxLen members take their steps; the
\* worker of a longer batch has not been scheduled yet
WorkShort ==
    /\ Work
    /\ \A t \in DOMAIN threads :
          threads'[t] # threads[t] => batch_queue[t].total <= MaxLen

NextLimit == SubmitLong \/ WorkShort

SpecLimit == Init /\ [][NextLimit]_vars

\* the scheduler runs a worker that can take a step; every engine and search
\* call is one step, so it returns
FairSpec == Spec /\ WF_vars(Work)

\* ------------------------------------------------------------------ claims
\* the places a Job's status is observable: its record in job_queue, and its
\* entry in the jobs list of its batch
Members == UNION {{<<b, k>> : k \in DOMAIN batch_queue[b].jobs} : b \in DOMAIN batch_queue}

Member(m) == batch_queue[m[1]].jobs[m[2]]

IsSpotifyBatch(b) == b \in DOMAIN threads /\ threads[b].kind = "spotify"

\* every status change of every record, in one step, is a pair of W
StatusStepsIn(W) ==
    /\ \A j \in DOMAIN job_queue :
         \/ job_queue'[j].status = job_queue[j].status
         \/ <<job_queue[j].status, job_queue'[j].status>> \in W
    /\ \A b \in DOMAIN batch_queue : \A k \in DOMAIN batch_queue[b].jobs :
         \/ batch_queue'[b].jobs[k].status = batch_queue[b].jobs[k].status
         \/ <<batch_queue[b].jobs[k].status, batch_queue'[b].jobs[k].status>> \in W

\* the order of section 3: queued -> searching -> downloading -> done | error
SpecRank(st) ==
    CASE st = "queued" -> 1 [] st = "searching" -> 2 [] st = "downloading" -> 3
      [] st = "done" -> 4 [] st = "error" -> 4

Statuses == {"queued", "searching", "downloading", "done", "error"}

SpecOrderSteps == {w \in Statuses \X Statuses : SpecRank(w[1]) < SpecRank(w[2])}

\* the walk the workers take: searching comes first and is left for queued
CodeWalk ==
    {<<"searching", "queued">>, <<"searching", "error">>, <<"queued", "downloading">>,
     <<"downloading", "done">>, <<"downloading", "error">>}

\* C1 as stated: every status change moves forward in the order
\* queued -> searching -> downloading -> done | error
C1_SpecOrder == [][StatusStepsIn(SpecOrderSteps)]_vars

\* C1 amended: every status change of every Job is one of searching -> queued,
\* searching -> error, queued -> downloading, downloading -> done,
\* downloading -> error; so the walk is forward-only in the order
\* searching -> queued -> downloading -> done | error and revisits nothing
C1_ForwardWalk == [][StatusStepsIn(CodeWalk)]_vars

\* a cross-platform member that went all the way to done
C1_Witness ==
    \E m \in Members : IsSpotifyBatch(m[1]) /\ Member(m).status = "done"

\* every status of every record that is done or error stays what it is
TerminalStays ==
    /\ \A j \in DOMAIN job_queue :
         job_queue[j].status \in {"done", "error"} =>
            j \in DOMAIN job_queue' /\ job_queue'[j].status = job_queue[j].status
    /\ \A m \in Members :
         Member(m).status \in {"done", "error"} =>
            /\ m[1] \in DOMAIN batch_queue'
            /\ batch_queue'[m[1]].jobs[m[2]].status = Member(m).status

\* C2: once a Job's status is done or error, no step of a worker or of a poll,
\* retrieval or packaging request changes it
C2_TerminalAbsorbing == [][TerminalStays]_vars

\* a done Job whose artifact has just been retrieved
C2_Witness ==
    /\ resp.op = "download_job" /\ resp.code = 200
    /\ job_queue[resp.id].status = "done"

\* file_path is set exactly when status is done, error exactly when status is error
FieldsMatchStatus(r) ==
    /\ (r.file_path # None) <=> (r.status = "done")
    /\ (r.error # None) <=> (r.status = "error")

\* C3 as stated: in every reachable state every Job record, in job_queue and in
\* the jobs list of its batch, has file_path non-empty iff status = done and
\* error non-empty iff status = error
C3_FieldsMatchStatus ==
    /\ \A j \in DOMAIN job_queue : FieldsMatchStatus(job_queue[j])
    /\ \A m \in Members : FieldsMatchStatus(Member(m))

\* C4: a Batch whose status is done has completed + failed = total
C4_DoneBatchCountsAll ==
    \A b \in DOMAIN batch_queue :
       batch_queue[b].status = "done" =>
          batch_queue[b].completed + batch_queue[b].failed = batch_queue[b].total

\* a finished cross-platform batch with one search failure and one download
C4_Witness ==
    \E b \in DOMAIN batch_queue :
       /\ IsSpotifyBatch(b)
       /\ batch_queue[b].status = "done"
       /\ batch_queue[b].completed = 1
       /\ batch_queue[b].failed = 1

\* the threads that are inside download_task, or ended in it
InDownload(t) == threads[t].pc \in {"dt_try", "dt_fail"}

EndedInDownload(t) == threads[t].kind = "single" /\ threads[t].pc = "exit"

NumClients == Len(clients_to_try)

\* the identities tried and failed so far are exactly the first c - 1 of the list
TriedInOrder ==
    \A t \in DOMAIN threads :
       InDownload(t) \/ EndedInDownload(t) =>
          /\ threads[t].c \in 1..NumClients + 1
          /\ threads[t].tried = SubSeq(clients_to_try, 1, threads[t].c - 1)
          /\ threads[t].pc = "dt_try" => threads[t].c <= NumClients

\* the step in which thread t makes its Job done
Succeeds(t) ==
    /\ threads[t].pc = "dt_try"
    /\ job_queue[threads[t].job_id].status = "downloading"
    /\ job_queue'[threads[t].job_id].status = "done"

\* a success ends the run: the thread leaves download_task, and the Job has the
\* title and a located file of the identity in use
FirstSuccessWins ==
    \A t \in DOMAIN threads :
       Succeeds(t) =>
          /\ ~InDownload(t)'
          /\ threads'[t].pc # "dt_start"
          /\ job_queue'[threads[t].job_id].title =
                InfoTitle(threads[t].url, clients_to_try[threads[t].c])
          /\ job_queue'[threads[t].job_id].file_path \in Located(files', threads[t].url)

\* C5: the identities are attempted strictly in list order, each at most once;
\* the first success ends the run with that identity's title and artifact and
\* nothing after it is attempted
C5_InOrderFirstSuccessWins == [][TriedInOrder' /\ FirstSuccessWins]_vars

\* a single job that is done by the third identity after the first two failed
C5_Witness ==
    \E t \in DOMAIN threads :
       /\ EndedInDownload(t)
       /\ threads[t].c = 3
       /\ threads[t].tried = <<"ios", "android">>
       /\ job_queue[t].status = "done"
       /\ job_queue[t].title = InfoTitle(threads[t].url, "web")

\* C6: a Job that is in error has every identity failed, and its error
\* carries the failure of the last identity of the list
C6_ErrorIsLastFailure ==
    /\ \A j \in DOMAIN job_queue :
         job_queue[j].status = "error" =>
            /\ Len(job_queue[j].error) = 3
            /\ job_queue[j].error[1] = "Download failed."
            /\ job_queue[j].error[2] = clients_to_try[NumClients]
    /\ \A t \in DOMAIN threads :
         EndedInDownload(t) /\ job_queue[t].status = "error" =>
            /\ threads[t].tried = clients_to_try
            /\ job_queue[t].error = <<"Download failed.">> \o threads[t].last_error

\* a single job in error whose last identity found no file
C6_Witness ==
    \E t \in DOMAIN threads :
       /\ EndedInDownload(t)
       /\ job_queue[t].status = "error"
       /\ job_queue[t].error = <<"Download failed.", "mediaconnect", "File not found">>

\* C7 as stated: after an identity's success with no file located, no further
\* identity is attempted
C7_MissingNotRetried ==
    \A t \in DOMAIN threads :
       threads[t].pc = "dt_try" =>
          \/ threads[t].last_error = None
          \/ threads[t].last_error[2] # "File not found"

\* the step in which thread t finds no file after its identity succeeded
ArtifactMissing(t) ==
    /\ threads[t].pc = "dt_try"
    /\ threads'[t].c = threads[t].c + 1
    /\ threads'[t].last_error = <<clients_to_try[threads[t].c], "File not found">>

\* C7 amended: a missing file is a failure of that identity like any other:
\* the Job stays downloading and the next identity of the list is attempted;
\* only after the last identity does the Job go to error
C7_MissingIsRetried ==
    [][\A t \in DOMAIN threads :
          ArtifactMissing(t) =>
             /\ job_queue'[threads[t].job_id].status = "downloading"
             /\ threads'[t].pc = IF threads[t].c < NumClients THEN "dt_try" ELSE "dt_fail"]_vars

\* a single job that is done by the identity after one that found no file
C7_Witness ==
    \E t \in DOMAIN threads :
       /\ EndedInDownload(t)
       /\ job_queue[t].status = "done"
       /\ threads[t].last_error # None
       /\ threads[t].last_error[2] = "File not found"

IsUrlBatch(b) == b \in DOMAIN threads /\ threads[b].kind = "batch"

CountStatus(b, st) ==
    Cardinality({k \in DOMAIN batch_queue[b].jobs : batch_queue[b].jobs[k].status = st})

\* C8: when a batch of locators is done every member is done or error, each
\* has its record in job_queue with that status, and completed and failed
\* count the members that succeeded and the members that failed
C8_FailureDoesNotAbort ==
    \A b \in DOMAIN batch_queue :
       IsUrlBatch(b) /\ batch_queue[b].status = "done" =>
          /\ \A k \in DOMAIN batch_queue[b].jobs :
               /\ batch_queue[b].jobs[k].status \in {"done", "error"}
               /\ batch_queue[b].jobs[k].job_id \in DOMAIN job_queue
               /\ job_queue[batch_queue[b].jobs[k].job_id].status = batch_queue[b].jobs[k].status
          /\ batch_queue[b].completed = CountStatus(b, "done")
          /\ batch_queue[b].failed = CountStatus(b, "error")

\* a finished batch whose first member failed and whose second is done
C8_Witness ==
    \E b \in DOMAIN batch_queue :
       /\ IsUrlBatch(b)
       /\ batch_queue[b].status = "done"
       /\ batch_queue[b].total = 2
       /\ batch_queue[b].jobs[1].status = "error"
       /\ batch_queue[b].jobs[2].status = "done"
       /\ batch_queue[b].completed = 1
       /\ batch_queue[b].failed = 1

\* member k of batch b has entered downloading
Entered(b, k) ==
    \/ batch_queue[b].jobs[k].status = "downloading"
    \/ batch_queue[b].jobs[k].job_id \in DOMAIN job_queue

\* member k of batch b is done or error, in the batch and in job_queue
Finished(b, k) ==
    /\ batch_queue[b].jobs[k].status \in {"done", "error"}
    /\ batch_queue[b].jobs[k].job_id \in DOMAIN job_queue =>
          job_queue[batch_queue[b].jobs[k].job_id].status \in {"done", "error"}

\* C9: within one Batch at most one member is downloading, and a member has
\* entered downloading only when every member before it is done or error
C9_OneAtATime ==
    \A b \in DOMAIN batch_queue :
       /\ CountStatus(b, "downloading") <= 1
       /\ Cardinality({k \in DOMAIN batch_queue[b].jobs :
                         /\ batch_queue[b].jobs[k].job_id \in DOMAIN job_queue
                         /\ job_queue[batch_queue[b].jobs[k].job_id].status = "downloading"}) <= 1
       /\ \A k \in DOMAIN batch_queue[b].jobs :
            Entered(b, k) => \A i \in 1..k - 1 : Finished(b, i)

\* the second member is downloading after the first one finished
C9_Witness ==
    \E b \in DOMAIN batch_queue :
       /\ batch_queue[b].total = 2
       /\ batch_queue[b].jobs[1].status = "done"
       /\ batch_queue[b].jobs[2].status = "downloading"
       /\ batch_queue[b].jobs[2].job_id \in DOMAIN job_queue

\* the members of batches of locators
UrlMembers == {m \in Members : IsUrlBatch(m[1])}

\* C10 as stated: a single-job poll of a member of a batch of locators never
\* answers NotFound
C10_PollNeverNotFound ==
    (resp.op = "status" /\ \E m \in UrlMembers : Member(m).job_id = resp.id) =>
       resp.code = 200

\* C10 amended: from the submit on every member is in the jobs list of its
\* Batch, queued and titled "Waiting..." until the worker reaches it; its
\* record in job_queue exists only from then on and is never queued, and a
\* single-job poll answers NotFound exactly while that record does not exist
C10_RegisteredWhenReached ==
    /\ \A m \in UrlMembers :
         /\ m[2] > threads[m[1]].i =>
               /\ Member(m).status = "queued"
               /\ Member(m).title = <<"Waiting...">>
         /\ Member(m).status = "queued" => Member(m).job_id \notin DOMAIN job_queue
         /\ Member(m).job_id \in DOMAIN job_queue =>
               job_queue[Member(m).job_id].status # "queued"
    /\ resp.op = "status" => (resp.code = 404 <=> resp.id \notin DOMAIN job_queue)

\* a poll of the second member answers NotFound while the first is downloading
C10_Witness ==
    \E b \in DOMAIN batch_queue :
       /\ IsUrlBatch(b)
       /\ batch_queue[b].total = 2
       /\ batch_queue[b].jobs[1].status = "downloading"
       /\ resp.op = "status"
       /\ resp.id = batch_queue[b].jobs[2].job_id
       /\ resp.code = 404

\* ---- C11
\* the members of cross-platform batch b whose search found nothing
NoMatch(b) ==
    {k \in DOMAIN batch_queue[b].jobs :
        batch_queue[b].jobs[k].url = None /\ batch_queue[b].jobs[k].status = "error"}

SpotifyBatches == {b \in DOMAIN batch_queue : IsSpotifyBatch(b)}

\* C11 as stated, for the message: a cross-platform member whose search
\* returned no result ends with error = "no match found"
C11_NoMatchMessage ==
    \A b \in SpotifyBatches : \A k \in NoMatch(b) :
        batch_queue[b].jobs[k].error # None
            => batch_queue[b].jobs[k].error = <<"no match found">>

\* a no-match member carries the message the worker writes, has no record in
\* job_queue, and whenever the worker is between two members the failed
\* counter is the number of members in error: each was counted once
NoMatchSettled ==
    \A b \in SpotifyBatches :
        LET jobs == batch_queue[b].jobs
            th == threads[b]
        IN /\ \A k \in NoMatch(b) :
                /\ jobs[k].job_id \notin DOMAIN job_queue
                /\ jobs[k].file_path = None
                /\ (th.pc # "s_set_errmsg" \/ th.i # k)
                       => jobs[k].error = <<"No YouTube match found">>
                /\ (th.pc \notin {"s_set_errmsg", "s_count_failed"} \/ th.i # k)
                       => batch_queue[b].failed >= 1
           /\ th.pc \in {"s_next", "p2_next", "exit"}
                 => batch_queue[b].failed
                      = Cardinality({k \in DOMAIN jobs : jobs[k].status = "error"})

\* a member leaves searching without a locator only for error, and a no-match
\* member stays as it is: it never becomes queued or downloading
NoMatchStays ==
    \A b \in SpotifyBatches : \A k \in DOMAIN batch_queue[b].jobs :
        LET j == batch_queue[b].jobs[k]
            jn == batch_queue'[b].jobs[k]
        IN /\ (j.status = "searching" /\ jn.status # "searching" /\ jn.url = None)
                 => jn.status = "error"
           /\ k \in NoMatch(b) => (jn.status = "error" /\ jn.url = None)

\* C11 (amended): a cross-platform descriptor whose search returns no result
\* produces a member that ends in status error with the error "No YouTube match
\* found", is counted in failed exactly once, in phase 1, and never enters
\* downloading (no job_queue record is ever created for it)
C11_NoMatchEndsInError == [][NoMatchSettled' /\ NoMatchStays]_vars

\* a finished cross-platform batch of two: one member without a match, counted
\* once, and one member downloaded
C11_Witness ==
    \E b \in SpotifyBatches :
        /\ batch_queue[b].status = "done"
        /\ batch_queue[b].total = 2
        /\ NoMatch(b) = {1}
        /\ batch_queue[b].jobs[1].error = <<"No YouTube match found">>
        /\ batch_queue[b].jobs[2].status = "done"
        /\ batch_queue[b].failed = 1
        /\ batch_queue[b].completed = 1

\* ---- C12
\* no member of a cross-platform batch is downloading (in the batch's list or
\* in job_queue) while a member is searching, and a downloading member has
\* the locator phase 1 resolved
PhasesApart ==
    \A b \in SpotifyBatches :
        LET jobs == batch_queue[b].jobs
            searching == {k \in DOMAIN jobs : jobs[k].status = "searching"}
            downloading == {k \in DOMAIN jobs :
                               \/ jobs[k].status = "downloading"
                               \/ jobs[k].job_id \in DOMAIN job_queue}
        IN /\ searching = {} \/ downloading = {}
           /\ \A k \in downloading : jobs[k].url # None

\* a cross-platform member is created in searching, becomes queued only from
\* searching, and becomes downloading only from queued with a locator
PhaseSteps ==
    /\ \A b \in DOMAIN batch_queue' \ DOMAIN batch_queue :
           threads'[b].kind = "spotify"
              => \A k \in DOMAIN batch_queue'[b].jobs :
                    batch_queue'[b].jobs[k].status = "searching"
    /\ \A b \in SpotifyBatches : \A k \in DOMAIN batch_queue[b].jobs :
           LET j == batch_queue[b].jobs[k]
               jn == batch_queue'[b].jobs[k]
           IN /\ (jn.status = "queued" /\ j.status # "queued") => j.status = "searching"
              /\ (jn.status = "downloading" /\ j.status # "downloading")
                    => (j.status = "queued" /\ j.url # None)
              /\ (j.job_id \notin DOMAIN job_queue /\ j.job_id \in DOMAIN job_queue')
                    => (j.status = "downloading" /\ j.url # None)

\* C12: in a cross-platform batch the two phases never overlap: no member is
\* downloading while a member is still searching, every member that is
\* downloaded was in searching and then queued before, and only members for
\* which phase 1 resolved a locator enter downloading
C12_PhasesNeverOverlap == [][PhasesApart' /\ PhaseSteps]_vars

\* phase 2 of a batch of two resolved members: the first is being downloaded,
\* the second waits in queued
C12_Witness ==
    \E b \in SpotifyBatches :
        /\ batch_queue[b].total = 2
        /\ batch_queue[b].jobs[1].status = "downloading"
        /\ batch_queue[b].jobs[1].job_id \in DOMAIN job_queue
        /\ batch_queue[b].jobs[2].status = "queued"
        /\ batch_queue[b].jobs[2].url # None

\* ---- C13
SubmitOps == {"enqueue", "batch_enqueue", "spotify_download"}

\* C13 as stated: no submission calls the extraction engine before it returns
C13_SubmitMakesNoEngineCall == resp.op \in SubmitOps => resp.calls = 0

\* what a submission has done when it returns
SubmitReturns ==
    resp'.op \in SubmitOps =>
        /\ files' = files
        /\ resp'.code # 200 => (resp'.calls = 0 /\ job_queue' = job_queue
                                   /\ batch_queue' = batch_queue /\ threads' = threads)
        /\ (resp'.code = 200 /\ resp'.op = "enqueue") =>
              /\ resp'.calls \in 1..Len(CLIENTS_TO_TRY)
              /\ resp'.id \notin DOMAIN job_queue
              /\ job_queue'[resp'.id].status = "queued"
              /\ threads'[resp'.id].pc = "dt_start"
        /\ (resp'.code = 200 /\ resp'.op = "batch_enqueue") =>
              /\ resp'.calls = 0
              /\ resp'.id \notin DOMAIN batch_queue
              /\ batch_queue'[resp'.id].status = "processing"
              /\ threads'[resp'.id].pc = "b_next"
        /\ (resp'.code = 200 /\ resp'.op = "spotify_download") =>
              /\ resp'.calls = 0
              /\ resp'.id \notin DOMAIN batch_queue
              /\ batch_queue'[resp'.id].status = "processing"
              /\ threads'[resp'.id].pc = "s_next"

\* C13 (amended): a batch or cross-platform submission returns as soon as the
\* record exists, with no engine call, search or file written on the
\* submitting path; a single submission first makes a metadata-only title
\* lookup (one to six engine calls, nothing written), then creates the queued
\* record and returns; the download happens in the worker the submission
\* starts
C13_OnlySingleSubmitLooksUp == [][SubmitReturns]_vars

\* a single submission whose lookup failed under every client: six engine
\* calls on the submitting path, title "Unknown", record queued
C13_Witness ==
    /\ resp.op = "enqueue"
    /\ resp.code = 200
    /\ resp.calls = Len(CLIENTS_TO_TRY)
    /\ job_queue[resp.id].status = "queued"
    /\ job_queue[resp.id].title = <<"Unknown">>

\* ---- C14
TerminalJobs == {id \in DOMAIN job_queue : job_queue[id].status \in {"done", "error"}}

\* what GET /status reports of a record
PollView(r) == <<r.status, r.title, r.error>>

\* no step changes what a poll reports of a terminal job, a poll of a terminal
\* job is answered, and every answered poll reports the record as it is
TerminalPollFixed ==
    /\ \A id \in TerminalJobs : PollView(job_queue'[id]) = PollView(job_queue[id])
    /\ resp'.op = "status" =>
          /\ resp'.id \in TerminalJobs => resp'.code = 200
          /\ resp'.code = 200 => resp'.body = PollView(job_queue'[resp'.id])

\* C14: polling a Job that is done or in error returns the same status, title
\* and error on every poll, whatever the other workers do between the polls
C14_TerminalPollIdempotent == [][TerminalPollFixed]_vars

\* a poll of a job in error answered while the worker of another submission
\* is in its client loop
C14_Witness ==
    /\ resp.op = "status"
    /\ resp.code = 200
    /\ resp.body[1] = "error"
    /\ \E t \in DOMAIN threads :
          /\ threads[t].pc = "dt_try"
          /\ threads[t].job_id # resp.id

\* ---- C15
\* the members of a batch that are done and whose artifact is on disk
DoneWithFile(batch) ==
    {k \in DOMAIN batch.jobs :
        batch.jobs[k].status = "done" /\ batch.jobs[k].file_path \in files}

\* zip holds, in member order, exactly one entry for each member of S
OneEntryEach(zip, batch, S) ==
    /\ Len(zip) = Cardinality(S)
    /\ \E f \in [DOMAIN zip -> S] :
          /\ \A d, e \in DOMAIN zip : d < e => f[d] < f[e]
          /\ \A e \in DOMAIN zip :
                zip[e] = <<batch.jobs[f[e]].file_path, safe_filename(batch.jobs[f[e]].title)>>

ArchiveWritten ==
    (resp'.op = "batch_download" /\ resp'.code = 200) =>
        LET batch == batch_queue[resp'.id]
            zip == archives'[resp'.id]
        IN /\ OneEntryEach(zip, batch, DoneWithFile(batch))
           /\ resp'.body = zip
           /\ batch.status = "done" => Len(zip) = batch.completed

NothingPacked ==
    resp'.op = "batch_download" =>
        /\ resp'.id \notin DOMAIN batch_queue
              => (resp'.code = 404 /\ archives' = archives)
        /\ (resp'.id \in DOMAIN batch_queue /\ DoneWithFile(batch_queue[resp'.id]) = {})
              => (resp'.code = 400 /\ archives' = archives
                    /\ resp'.id \notin DOMAIN archives')

\* C16: batch_download of an unknown batch id answers 404 (NotFound), and of a
\* known batch without a member that is done with an existing artifact answers
\* 400 "No files" (NothingToPackage) and writes no archive, at any point of the
\* batch's processing
C16_NothingToPackage == [][NothingPacked]_vars

\* "No files" for a batch whose first member is still being downloaded
C16_Witness ==
    /\ resp.op = "batch_download"
    /\ resp.code = 400
    /\ resp.id \in DOMAIN batch_queue
    /\ batch_queue[resp.id].status = "processing"
    /\ batch_queue[resp.id].total = 2
    /\ batch_queue[resp.id].jobs[1].status = "downloading"
    /\ resp.id \notin DOMAIN archives

\* ---- C17
NotDone == {"queued", "searching", "downloading", "error"}

\* C17 as stated, for the members of a batch: retrieving a member that is
\* queued, searching, downloading or in error answers 400 (NotReady)
C17_KnownJobNotReady ==
    resp.op = "download_job" =>
        \A m \in Members :
            (Member(m).job_id = resp.id /\ Member(m).status \in NotDone) => resp.code = 400

\* C17 (amended): polling or retrieving an id that has no record in job_queue
\* answers 404 (NotFound), which includes the members of a batch the worker has
\* not reached; retrieving a job that has a record returns the artifact only
\* if its status is done, and answers 400 (NotReady) with no artifact otherwise
C17_RetrieveOnlyWhenDone ==
    /\ resp.op \in {"status", "download_job"} =>
          (resp.id \notin DOMAIN job_queue <=> resp.code = 404)
    /\ (resp.op = "download_job" /\ resp.id \in DOMAIN job_queue) =>
          LET job == job_queue[resp.id] IN
          /\ job.status = "done" =>
                (resp.code = 200 /\ resp.body[1] = job.file_path /\ job.file_path \in files)
          /\ job.status # "done" =>
                (job.status \in NotDone /\ resp.code = 400
                   /\ resp.body = <<"Job status", job.status>>)

\* a retrieval of a job in error answered 400, and nothing handed out
C17_Witness ==
    /\ resp.op = "download_job"
    /\ resp.code = 400
    /\ job_queue[resp.id].status = "error"

\* ---- C18
\* the quality a form value ends up as: itself when enumerated, else "192"
StoredFrom(Q) == (Q \cap Qualities) \cup (IF Q \subseteq Qualities THEN {} ELSE {"192"})

\* C18: on every submission path a quality outside {128, 192, 256, 320} is
\* coerced to 192 and the submission is accepted, so the quality stored on
\* every job and batch and handed to download_task is one of the four values
C18_QualityIsEnumerated ==
    /\ \A id \in DOMAIN job_queue :
          job_queue[id].quality \in Qualities \cap StoredFrom(QualityInputs)
    /\ \A b \in DOMAIN batch_queue :
          batch_queue[b].quality \in Qualities \cap StoredFrom(QualityInputs)
    /\ \A t \in DOMAIN threads :
          threads[t].quality \in Qualities \cap StoredFrom(QualityInputs)
    /\ (resp.op = "enqueue" /\ resp.code = 200) =>
          resp.body[3] = <<job_queue[resp.id].quality>>

\* a batch member registered by its worker with quality 192: the form carried
\* a value outside the enumeration, the only input that is stored as 192
C18_Witness ==
    \E m \in Members :
        /\ batch_queue[m[1]].quality = "192"
        /\ Member(m).job_id \in DOMAIN job_queue
        /\ job_queue[Member(m).job_id].quality = "192"
        /\ threads[m[1]].quality = "192"
        /\ threads[m[1]].pc = "dt_try"

\* ---- C19
\* worker t was spawned by the submission that job id belongs to
Owner(t, id) ==
    IF threads[t].kind = "single"
    THEN t = id
    ELSE \E k \in DOMAIN batch_queue[t].jobs : batch_queue[t].jobs[k].job_id = id

\* the workers that take this step
Acting == {t \in DOMAIN threads : threads'[t] # threads[t]}

\* the job_queue records and batch members this step creates or changes
WrittenJobs ==
    {id \in DOMAIN job_queue' : id \notin DOMAIN job_queue \/ job_queue'[id] # job_queue[id]}

WrittenMembers == {m \in Members : batch_queue'[m[1]].jobs[m[2]] # Member(m)}

\* every job id, registered or member of a batch, belongs to one worker
OneOwner ==
    \A id \in DOMAIN job_queue \cup {Member(m).job_id : m \in Members} :
        Cardinality({t \in DOMAIN threads : Owner(t, id)}) = 1

OneWriter ==
    /\ \A id \in WrittenJobs :
          IF resp'.op = "enqueue"
          THEN id = resp'.id /\ id \notin DOMAIN job_queue /\ Acting = {}
          ELSE \E t \in DOMAIN threads : Acting = {t} /\ Owner(t, id)
    /\ \A m \in WrittenMembers : Acting = {m[1]}
    /\ OneOwner'

\* C19: every Job record, in job_queue and in its batch's member list, is
\* written only by the worker its own submission spawned; no step of any
\* other worker changes it, under any interleaving of concurrent submissions
C19_OneWriterPerJob == [][OneWriter]_vars

\* a batch worker and the worker of a single job, each in the client loop for
\* its own job record
C19_Witness ==
    \E t1, t2 \in DOMAIN threads :
        /\ threads[t1].kind = "batch"
        /\ threads[t2].kind = "single"
        /\ threads[t1].pc = "dt_try"
        /\ threads[t2].pc = "dt_try"
        /\ job_queue[threads[t1].job_id].status = "downloading"
        /\ job_queue[threads[t2].job_id].status = "downloading"
        /\ threads[t1].job_id # threads[t2].job_id

\* ---- C20
\* C20: a batch poll never reports a partially written member: a member
\* reported downloading has its job_queue record, a member reported done has
\* the title and the file_path of its finished job, and a member reported in
\* error has its error message
C20_PollSeesWholeRecords ==
    (resp.op = "batch_status" /\ resp.code = 200) =>
        \A k \in DOMAIN resp.body.jobs :
            LET seen == resp.body.jobs[k]
                member == batch_queue[resp.id].jobs[k]
            IN /\ seen.status = "downloading" => seen.job_id \in DOMAIN job_queue
               /\ seen.status = "done" =>
                     /\ seen.title = job_queue[seen.job_id].title
                     /\ member.file_path = job_queue[seen.job_id].file_path
               /\ seen.status = "error" => seen.error # None

\* ---- C21
DoneBatches == {b \in DOMAIN batch_queue : batch_queue[b].status = "done"}

DoneBatchFrozen ==
    \A b \in DoneBatches :
        /\ b \in DOMAIN batch_queue'
        /\ batch_queue'[b] = batch_queue[b]

\* C21: once a batch's status is done its record is never changed and never
\* deleted: total, completed, failed, current_index and every member's fields
\* stay as they are under later polls, packaging requests and the work of
\* other batches
C21_DoneBatchImmutable == [][DoneBatchFrozen]_vars

\* a finished batch has just been packaged while the worker of another
\* submission is in its client loop
C21_Witness ==
    /\ resp.op = "batch_download"
    /\ resp.code = 200
    /\ resp.id \in DoneBatches
    /\ \E t \in DOMAIN threads : t # resp.id /\ threads[t].pc = "dt_try"

\* ---- C22
Terminal == {"done", "error"}

\* the ids a run can hand out
MaxId == MaxJobs + MaxSubmits

JobSettled(id) == id \in DOMAIN job_queue /\ job_queue[id].status \in Terminal

BatchSettled(b) ==
    /\ b \in DOMAIN batch_queue
    /\ batch_queue[b].status = "done"
    /\ \A k \in DOMAIN batch_queue[b].jobs : batch_queue[b].jobs[k].status \in Terminal

\* a worker that has stopped has left its job, or its batch and every member
\* of it, in a terminal state
ExitClean ==
    \A t \in DOMAIN threads :
        threads[t].pc = "exit" =>
            IF threads[t].kind = "single" THEN JobSettled(t) ELSE BatchSettled(t)

\* C22: every started Job and every started Batch eventually reaches a
\* terminal state (done or error for a Job and for a batch member, done for a
\* Batch) when the workers are scheduled and every engine and search call
\* returns, and no worker stops while its Job is queued, searching or
\* downloading
C22_EveryJobTerminates ==
    /\ []ExitClean
    /\ \A id \in 1..MaxId :
          (id \in DOMAIN job_queue \cup DOMAIN batch_queue)
              ~> (JobSettled(id) \/ BatchSettled(id))

\* two submissions have run to their end: a single job in error and a batch
\* that is done, both workers stopped
C22_Witness ==
    \E t1, t2 \in DOMAIN threads :
        /\ threads[t1].kind = "single"
        /\ threads[t1].pc = "exit"
        /\ job_queue[t1].status = "error"
        /\ threads[t2].kind # "single"
        /\ threads[t2].pc = "exit"
        /\ batch_queue[t2].total = 1
        /\ BatchSettled(t2)

\* ---- C23
\* the artifact of job id is gone from the working directory, or its record
\* from the registry
Reclaimed(id) == id \notin DOMAIN job_queue \/ job_queue[id].file_path \notin files

\* C23: after a Job has reached done, its artifact file (or its stale record)
\* is eventually reclaimed by the cleanup scheduled for it
C23_ArtifactReclaimed ==
    \A id \in 1..MaxId :
        (id \in DOMAIN job_queue /\ job_queue[id].status = "done") ~> Reclaimed(id)

\* ---- C24
\* C24: whenever a Job is done, its file_path has the mp3 extension
C24_ArtifactIsMp3 ==
    \A id \in DOMAIN job_queue :
        job_queue[id].status = "done" => job_queue[id].file_path[2] = "mp3"

\* ---- C25
\* C25: searching is only ever the status of a member of a cross-platform
\* batch: no record in job_queue (single jobs, and batch members once their
\* worker registers them) and no member of a URL batch is ever in searching
C25_SearchingOnlyCrossPlatform ==
    /\ \A id \in DOMAIN job_queue : job_queue[id].status # "searching"
    /\ \A m \in Members :
          Member(m).status = "searching" =>
              (IsSpotifyBatch(m[1]) /\ Member(m).job_id \notin DOMAIN job_queue)

\* a cross-platform member is searching while a single job and nothing else
\* is in the registry, downloading
C25_Witness ==
    /\ \E m \in Members : Member(m).status = "searching"
    /\ \E t \in DOMAIN threads :
          /\ threads[t].kind = "single"
          /\ job_queue[t].status = "downloading"

\* ---- C26
\* a pass of the client loop that did not end in done: the client's failure
\* is recorded, the job record is untouched, and the loop goes on to the next
\* client, or leaves the loop after the last one
FailureMovesOn ==
    \A t \in DOMAIN threads :
        LET th == threads[t]
            thn == threads'[t]
        IN /\ (th.pc = "dt_try" /\ thn # th /\ job_queue'[th.job_id].status # "done") =>
                /\ thn.last_error[1] = clients_to_try[th.c]
                /\ thn.last_error[2] \in {"DownloadError", "Exception", "File not found"}
                /\ job_queue'[th.job_id] = job_queue[th.job_id]
                /\ job_queue[th.job_id].status = "downloading"
                /\ th.c < NumClients => (thn.pc = "dt_try" /\ thn.c = th.c + 1)
                /\ th.c = NumClients => thn.pc = "dt_fail"
           /\ (InDownload(t) /\ job_queue[th.job_id].status # "error"
                  /\ job_queue'[th.job_id].status = "error") =>
                (th.pc = "dt_fail" /\ th.tried = clients_to_try)

\* C26: a failure of one client, the engine's own error, any other exception
\* or a missing file, only moves the loop on to the next client: at a client
\* that is not the last no failure ends the job in error or ends the worker
C26_AnyFailureMovesOn == [][FailureMovesOn]_vars

\* the second client has failed with an exception that is not the engine's:
\* the job is still downloading and the third client is next
C26_Witness ==
    \E t \in DOMAIN threads :
        /\ threads[t].pc = "dt_try"
        /\ threads[t].c = 3
        /\ threads[t].last_error = <<"android", "Exception">>
        /\ job_queue[threads[t].job_id].status = "downloading"

\* ---- C27
\* C27 as stated, for the order of the stages: when the metadata-only pass has
\* run for a job, the primary extraction of that job has run before it
C27_MetadataPassAfterPrimary ==
    (resp.op = "enqueue" /\ resp.calls > 0) =>
        (threads[resp.id].tried # <<>> \/ job_queue[resp.id].status \in Terminal)

TitleStages ==
    /\ (resp'.op = "enqueue" /\ resp'.code = 200) =>
          LET job == job_queue'[resp'.id] IN
          /\ resp'.calls >= 1
          /\ job.title \in {<<job.url, "meta">>, <<"Unknown">>}
          /\ job.title = <<"Unknown">> => resp'.calls = Len(CLIENTS_TO_TRY)
          /\ job.status = "queued"
          /\ threads'[resp'.id].tried = <<>>
    /\ \A id \in DOMAIN job_queue :
          IF job_queue[id].status # "done" /\ job_queue'[id].status = "done"
          THEN \E t \in DOMAIN threads :
                  /\ threads[t].job_id = id
                  /\ threads[t].pc = "dt_try"
                  /\ job_queue'[id].title = InfoTitle(job_queue[id].url, clients_to_try[threads[t].c])
          ELSE job_queue'[id].title = job_queue[id].title
    /\ \A id \in DOMAIN job_queue' \ DOMAIN job_queue :
          resp'.op # "enqueue" => job_queue'[id].title # <<job_queue'[id].url, "meta">>

\* C27 (amended): a single submission runs the metadata-only pass first, on
\* the submitting path and whatever the primary extraction will return: the
\* title of the first client that answers, or "Unknown"; a batch member gets
\* no metadata-only pass; when the primary extraction succeeds the title it
\* reports replaces the record's title unconditionally, and no other step
\* changes a title (there is no public title lookup)
C27_MetadataFirstPrimaryReplaces == [][TitleStages]_vars

\* the title of the metadata-only pass is on the record while the primary
\* extraction is at its second client
C27_Witness ==
    \E t \in DOMAIN threads :
        /\ threads[t].kind = "single"
        /\ threads[t].pc = "dt_try"
        /\ threads[t].c = 2
        /\ job_queue[t].title = <<job_queue[t].url, "meta">>

\* ---- C28
Phase1Pcs == {"s_next", "s_search", "s_set_queued", "s_set_errmsg", "s_count_failed"}

\* the worker has downloaded member m, copied the result back and counted it
Downloaded(m) ==
    LET th == threads[m[1]] IN
    /\ th.pc \notin Phase1Pcs
    /\ Member(m).url # None
    /\ \/ th.pc = "exit"
       \/ th.i > m[2]
       \/ th.i = m[2] /\ th.pc \in {"b_next", "p2_next"}

\* phase 1 has found no match for member m, set it to error and counted it
NoMatchProcessed(m) ==
    /\ IsSpotifyBatch(m[1])
    /\ m[2] \in NoMatch(m[1])
    /\ ~(threads[m[1]].i = m[2] /\ threads[m[1]].pc \in {"s_set_errmsg", "s_count_failed"})

\* C28 as stated: once a batch member has been processed, its status, title
\* and error in the batch equal those of its record in job_queue
C28_SnapshotEqualsJobRecord ==
    \A m \in Members :
        (Downloaded(m) \/ NoMatchProcessed(m)) =>
            /\ Member(m).job_id \in DOMAIN job_queue
            /\ PollView(Member(m)) = PollView(job_queue[Member(m).job_id])

\* C28 (amended): once a batch member has gone through the download and the
\* copy back, its status, title and error in the batch equal those of its
\* record in job_queue in every later state; a cross-platform member without
\* a match has no record in job_queue to compare with
C28_DownloadedSnapshotEqualsJob ==
    \A m \in Members :
        /\ Downloaded(m) =>
              /\ Member(m).job_id \in DOMAIN job_queue
              /\ PollView(Member(m)) = PollView(job_queue[Member(m).job_id])
              /\ Member(m).status \in Terminal
        /\ NoMatchProcessed(m) => Member(m).job_id \notin DOMAIN job_queue

\* the first member of a batch of two ended in error and was copied back;
\* the worker is in the client loop for the second
C28_Witness ==
    \E b \in DOMAIN batch_queue :
        /\ batch_queue[b].total = 2
        /\ Downloaded(<<b, 1>>)
        /\ batch_queue[b].jobs[1].status = "error"
        /\ batch_queue[b].jobs[1].error = job_queue[batch_queue[b].jobs[1].job_id].error
        /\ threads[b].i = 2
        /\ threads[b].pc = "dt_try"

\* ---- C29
\* the number of entries of a member list with the given status
NumWith(jobs, st) == Cardinality({k \in DOMAIN jobs : jobs[k].status = st})

CountersWithin(batch) ==
    /\ batch.completed <= NumWith(batch.jobs, "done")
    /\ batch.failed <= NumWith(batch.jobs, "error")
    /\ batch.completed + batch.failed <= batch.total

\* the counters of every batch, and of every batch poll's answer, are within
\* what the member list shows
CountersBounded ==
    /\ \A b \in DOMAIN batch_queue : CountersWithin(batch_queue[b])
    /\ (resp.op = "batch_status" /\ resp.code = 200) => CountersWithin(resp.body)

CountersGrow ==
    \A b \in DOMAIN batch_queue :
        /\ batch_queue'[b].completed >= batch_queue[b].completed
        /\ batch_queue'[b].failed >= batch_queue[b].failed

\* C29: in every state of a batch, also while it is processing and as a
\* poller sees it, completed is at most the number of members whose snapshot
\* status is done, failed at most the number in error, their sum at most
\* total, and neither counter ever decreases
C29_CountersWithinSnapshot == [][CountersBounded' /\ CountersGrow]_vars

\* a poll of a batch of two in processing: the first member is reported done
\* and is not counted yet
C29_Witness ==
    /\ resp.op = "batch_status"
    /\ resp.code = 200
    /\ resp.body.status = "processing"
    /\ resp.body.total = 2
    /\ resp.body.jobs[1].status = "done"
    /\ resp.body.completed = 0

\* ---- C30
\* C30: in every batch with total > 0 the current index is within
\* 0 .. total - 1, and a member whose snapshot status is downloading sits at
\* the current index (positions counted from 0, as the code counts them)
C30_CurrentIndexAtDownloading ==
    \A b \in DOMAIN batch_queue :
        LET batch == batch_queue[b] IN
        batch.total > 0 =>
            /\ 0 <= batch.current_index
            /\ batch.current_index < batch.total
            /\ \A k \in DOMAIN batch.jobs :
                   batch.jobs[k].status = "downloading" => batch.current_index = k - 1

\* the second member of a batch of two is downloading
C30_Witness ==
    \E b \in DOMAIN batch_queue :
        /\ batch_queue[b].total = 2
        /\ batch_queue[b].jobs[2].status = "downloading"
        /\ batch_queue[b].current_index = 1

\* ---- C31
\* while a worker still has an identity to try, its Job is downloading and
\* has no error
IntermediateHidden ==
    \A t \in DOMAIN threads :
       threads[t].pc = "dt_try" =>
          /\ job_queue[threads[t].job_id].status = "downloading"
          /\ job_queue[threads[t].job_id].error = None

\* what GET /status answers about such a Job
PollHides ==
    \A t \in DOMAIN threads :
       /\ threads[t].pc = "dt_try"
       /\ resp.op = "status"
       /\ resp.id = threads[t].job_id
       => /\ resp.code = 200
          /\ resp.body[1] = "downloading"
          /\ resp.body[3] = None

\* a record is created without an error, and the one step that writes the
\* error field is taken by the Job's worker after every identity has failed
ErrorWrittenOnce ==
    /\ \A j \in DOMAIN job_queue' \ DOMAIN job_queue : job_queue'[j].error = None
    /\ \A j \in DOMAIN job_queue :
         job_queue'[j].error # job_queue[j].error =>
            /\ job_queue[j].error = None
            /\ \E t \in DOMAIN threads :
                  /\ threads[t].job_id = j
                  /\ threads[t].pc = "dt_fail"
                  /\ threads[t].tried = clients_to_try

\* C31: while identities remain to be tried the Job's status stays
\* downloading and a poll shows neither status error nor an error text; the
\* error field is written once, after the last identity has failed
C31_IntermediateFailuresHidden ==
    [][IntermediateHidden' /\ PollHides' /\ ErrorWrittenOnce]_vars

\* a poll of a Job whose worker is about to try the last identity, every
\* earlier one having failed
C31_Witness ==
    \E t \in DOMAIN threads :
       /\ threads[t].pc = "dt_try"
       /\ threads[t].c = NumClients
       /\ threads[t].last_error # None
       /\ resp.op = "status"
       /\ resp.id = threads[t].job_id
       /\ resp.body[1] = "downloading"
       /\ resp.body[3] = None

\* ---- C32
\* the fields of a Job other than status and error
Payload(r) == <<r.title, r.url, r.quality, r.file_path>>

\* from its first step in download_task to the step that writes the error, a
\* worker whose step does not make the Job done leaves the payload as it was
ErrorPathFrame ==
    \A t \in DOMAIN threads :
       LET j == threads[t].job_id IN
       /\ threads[t].pc \in {"dt_start", "dt_try", "dt_fail"}
       /\ job_queue'[j].status # "done"
       => Payload(job_queue'[j]) = Payload(job_queue[j])

\* so a Job in error has the locator and quality it was started with and no
\* artifact
ErrorKeepsStart ==
    /\ \A j \in DOMAIN job_queue :
         job_queue[j].status = "error" => job_queue[j].file_path = None
    /\ \A t \in DOMAIN threads :
         EndedInDownload(t) /\ job_queue[t].status = "error" =>
            /\ job_queue[t].url = threads[t].url
            /\ job_queue[t].quality = threads[t].quality

\* C32: when a Job ends in error the worker has changed only its status and
\* error: title, locator, quality and artifact path are as they were when
\* the download started
C32_ErrorChangesOnlyStatusAndError == [][ErrorPathFrame /\ ErrorKeepsStart']_vars

\* a single job in error that still carries the title found at submission
C32_Witness ==
    \E t \in DOMAIN threads :
       /\ EndedInDownload(t)
       /\ job_queue[t].status = "error"
       /\ job_queue[t].title = <<threads[t].url, "meta">>
       /\ job_queue[t].file_path = None

\* ---- C33
\* a step of worker t leaves every Job record of another submission, and
\* every Batch record but its own, as it was
WorkerFrame ==
    \A t \in Acting :
       /\ \A id \in DOMAIN job_queue' :
             ~Owner(t, id) => id \in DOMAIN job_queue /\ job_queue'[id] = job_queue[id]
       /\ \A b \in DOMAIN batch_queue' :
             (threads[t].kind = "single" \/ b # t) =>
                b \in DOMAIN batch_queue /\ batch_queue'[b] = batch_queue[b]

\* C33: a worker writes only the records it owns: the worker of a single job
\* its own Job record, a batch worker its own Batch record and the Job
\* records of that batch's members; the Jobs and Batches of concurrent
\* submissions are left unchanged by it
C33_WorkerWritesOnlyItsOwn == [][WorkerFrame]_vars

\* two batches in the registry: the worker of one has finished and counted
\* its member, the other batch is as its submission left it
C33_Witness ==
    \E b1, b2 \in DOMAIN batch_queue :
       /\ b1 # b2
       /\ batch_queue[b1].completed + batch_queue[b1].failed = 1
       /\ threads[b2].pc \in {"b_next", "s_next"}
       /\ threads[b2].i = 0
       /\ batch_queue[b2].total = 1
       /\ batch_queue[b2].completed + batch_queue[b2].failed = 0
       /\ batch_queue[b2].jobs[1].status \in {"queued", "searching"}

\* ---- C34
ReadOps == {"status", "download_job", "batch_status", "batch_download"}

\* the answers a read handler can give
ReadAnswered == resp'.op \in ReadOps /\ resp'.code \in {200, 400, 404}

\* C34: poll single, poll batch, retrieve single and package batch leave
\* every Job record and every Batch record unchanged, whether they succeed or
\* answer not found, not ready or nothing to package
C34_ReadsLeaveRegistries ==
    [][ReadAnswered => job_queue' = job_queue /\ batch_queue' = batch_queue]_vars

\* a batch of two is packaged while it is still processing: the archive is
\* written and the batch is as the worker left it
C34_Witness ==
    /\ resp.op = "batch_download"
    /\ resp.code = 200
    /\ resp.id \in DOMAIN archives
    /\ batch_queue[resp.id].status = "processing"
    /\ batch_queue[resp.id].total = 2
    /\ batch_queue[resp.id].completed = 1

\* ---- C35
DownloadPcs == {"dt_start", "dt_try", "dt_fail"}

\* C35: download_task only ever runs for a job id whose record is already in
\* job_queue, in the single, the batch and the cross-platform flow, so its
\* first write finds the record under every interleaving
C35_RecordBeforeWorker ==
    \A t \in DOMAIN threads :
       threads[t].pc \in DownloadPcs =>
          /\ threads[t].job_id \in DOMAIN job_queue
          /\ job_queue[threads[t].job_id].url = threads[t].url

\* a cross-platform worker about to take the first step of download_task for
\* a member it has just registered, while a single job's worker is at the
\* same point
C35_Witness ==
    \E t1, t2 \in DOMAIN threads :
       /\ threads[t1].kind = "spotify"
       /\ threads[t2].kind = "single"
       /\ threads[t1].pc = "dt_start"
       /\ threads[t2].pc = "dt_start"
       /\ job_queue[threads[t1].job_id].status = "downloading"
       /\ job_queue[threads[t2].job_id].status = "queued"

\* ---- C36
\* total is the number of members, and at most 50
WithinLimit ==
    \A b \in DOMAIN batch_queue :
       /\ batch_queue[b].total = Len(batch_queue[b].jobs)
       /\ batch_queue[b].total <= BatchLimit

\* a batch of locators has at least one member; a cross-platform batch
\* starts with the first track that was sent
KeepsFirst ==
    \A b \in DOMAIN batch_queue :
       /\ IsUrlBatch(b) => batch_queue[b].total >= 1
       /\ IsSpotifyBatch(b) /\ batch_queue[b].total >= 1 =>
             batch_queue[b].jobs[1].search_query = <<"t0">>

\* a rejected batch submit creates no record and starts no worker
RejectedClean ==
    resp'.op = "batch_enqueue" /\ resp'.code = 400 =>
       UNCHANGED <<job_queue, batch_queue, threads, nextId>>

\* C36: every Batch has at most 50 members: batch submit rejects more than
\* 50 valid locators, or none, without creating any record, cross-platform
\* submit keeps the first 50 of the list, and total is the number of members
C36_AtMostFiftyMembers == [][WithinLimit' /\ KeepsFirst' /\ RejectedClean]_vars

\* the registry holds a cross-platform batch cut to 50 members (its last
\* member is not the last track sent), and a batch submit with 51 locators
\* has just been rejected
C36_Witness ==
    /\ resp.op = "batch_enqueue"
    /\ resp.code = 400
    /\ resp.body = <<"Maximum 50 URLs per batch">>
    /\ \E b \in DOMAIN batch_queue :
          /\ IsSpotifyBatch(b)
          /\ batch_queue[b].total = BatchLimit
          /\ batch_queue[b].jobs[1].search_query = <<"t0">>
          /\ batch_queue[b].jobs[BatchLimit].search_query = <<"t1">>

\* ---- C37
DoneJobs == {j \in DOMAIN job_queue : job_queue[j].status = "done"}

\* C37: the file_path of a done Job is named by the content identifier of
\* its locator and by nothing of the job, so two done Jobs of the same
\* content have the same file_path and share the one file
C37_ArtifactPathByContent ==
    \A j1, j2 \in DoneJobs :
       /\ job_queue[j1].file_path[1] = VideoId(job_queue[j1].url)
       /\ job_queue[j1].file_path \in files
       /\ VideoId(job_queue[j1].url) = VideoId(job_queue[j2].url) =>
             job_queue[j1].file_path = job_queue[j2].file_path

====
